---- MODULE Spec2Model ----
(***************************************************************************)
(* Client-side generation workflow of upstart-ai: the entry surface        *)
(* (Landing.jsx) and the workflow surface (Dashboard.jsx) with its feature *)
(* cards (slides, video, network, roadmap), the two result dialogs and the *)
(* chat panel.  Every async handler is split at its `await fetch`: one     *)
(* action for the part that runs in the click event, one for the           *)
(* continuation that runs when the request resolves.                       *)
(***************************************************************************)
EXTENDS Integers, Sequences, FiniteSets, TLC

(* ------------------------------ bounds -------------------------------- *)
\* number of requests the workflow surface issues in one behaviour
MaxRequests == 3

\* the request budget of the runs checked for liveness
LiveRequests == MaxRequests - 1

(* ------------------------------ strings -------------------------------- *)
\* a string is a sequence of characters; "a" stands for any non-blank one
Chars == {" ", "a"}

\* what the user types into the prompt box: nothing, blanks only, and a prompt
\* with a leading blank
Prompts == {<<>>, <<" ">>, <<" ", "a">>}

\* what the user types into the chat box: nothing, blanks only, and a message
\* with a trailing blank
ChatInputs == {<<>>, <<" ">>, <<"a", " ">>}

RECURSIVE TrimStart(_)
TrimStart(s) == IF s # <<>> /\ Head(s) = " " THEN TrimStart(Tail(s)) ELSE s

RECURSIVE TrimEnd(_)
TrimEnd(s) ==
    IF s # <<>> /\ s[Len(s)] = " " THEN TrimEnd(SubSeq(s, 1, Len(s) - 1)) ELSE s

\* String.prototype.trim
Trim(s) == TrimEnd(TrimStart(s))

\* a fixed text of the program or of the server, as a one-token string
Lit(token) == <<token>>

(* ------------------------- fixed program texts ------------------------- *)
Greeting == Lit("Hello! I'm Everest, your AI startup assistant. How can I help you today?")
ChatFallback == Lit("Sorry, something went wrong. Please try again.")
ChatNoReply == Lit("Sorry, I couldn't process that request.")

MsgSlidesPrompt == "Please enter a prompt before generating slides."
MsgRoadmapPrompt == "Please enter a prompt before generating roadmap."
MsgVideoPrompt == "Please enter a prompt before generating video."
MsgSlidesFailed == "Failed to generate slides."
MsgSlidesNoLink == "Presentation link not found in response."
MsgRoadmapFailed == "Failed to generate roadmap."
MsgVideoFailed == "Failed to generate video."
MsgRoadmapRetrieve == "Failed to retrieve roadmap."
MsgRoadmapDownload == "Failed to download roadmap."
MsgVideoRetrieve == "Failed to retrieve video."
MsgVideoDownload == "Failed to download video."
\* err.message of the TypeError a rejected fetch throws
MsgNetwork == "Failed to fetch"
\* err.message of the SyntaxError response.json() throws on a non-JSON body
MsgParse == "Unexpected token in JSON"

RoadmapFile == "startup_roadmap.pdf"
VideoFile == "startup_ad_video.mp4"

(* ------------------------------ responses ------------------------------ *)
\* "" is the absent (or empty, equally falsy) field
ServerErrors == {"", "E"}
ServerUrls == {"", "u1", "u2"}
ServerReplies == {<<>>, Lit("R")}

\* net: fetch rejected; ok: response.ok; json: the body parses as a JSON object
\* the JSON objects a server sends: at most one of the three fields is set
JsonBodies ==
    {[error |-> e, presentationUrl |-> "", response |-> <<>>] : e \in ServerErrors}
    \cup {[error |-> "", presentationUrl |-> u, response |-> <<>>] : u \in ServerUrls}
    \cup {[error |-> "", presentationUrl |-> "", response |-> t] : t \in ServerReplies}

Responses ==
    {[net |-> TRUE, ok |-> FALSE, json |-> FALSE, error |-> "", presentationUrl |-> "", response |-> <<>>]}
    \cup {[net |-> FALSE, ok |-> o, json |-> FALSE, error |-> "", presentationUrl |-> "", response |-> <<>>] :
            o \in BOOLEAN}
    \cup {[net |-> FALSE, ok |-> o, json |-> TRUE, error |-> b.error,
           presentationUrl |-> b.presentationUrl, response |-> b.response] :
            o \in BOOLEAN, b \in JsonBodies}

\* a transcript that starts empty
InitialChatMessages_Empty == <<>>

\* useState([...]) of chatMessages: the transcript a mounted Dashboard starts with
InitialChatMessages == <<[role |-> "assistant", text |-> Greeting]>>

(* ------------------------------- state --------------------------------- *)

VARIABLES
    surface,            \* which route element is mounted: "landing", "dashboard", "gone"
    landingText,        \* Landing: text
    landingLoading,     \* Landing: loading
    landingError,       \* Landing: error ("" is null)
    text,               \* Dashboard: location.state?.text || ''
    presentationUrl,    \* Dashboard: location.state.presentationUrl ("" is null/undefined)
    roadmapLoading, roadmapReady, showRoadmapDialog,
    videoLoading, videoReady, showVideoDialog,
    chatMessages, chatInput,
    requests,           \* fetches in flight, each with the closure of its handler
    nextId,             \* number of requests the workflow surface issued so far
    generated,          \* per feature, the request its latest generate trigger issued
    objectUrls,         \* blob URLs made by URL.createObjectURL and not yet revoked
    staleAccess,        \* View/Download requests issued before the modal's current opening
    openedBy,           \* per result modal: what made it visible ("none" while hidden)
    history,            \* the session history of the tab: the routes visited
    lastEvent           \* the handler step just taken and what it did to the outside

dashVars == <<roadmapLoading, roadmapReady, showRoadmapDialog,
              videoLoading, videoReady, showVideoDialog, chatMessages, chatInput>>
landingVars == <<landingText, landingLoading, landingError>>
locationVars == <<text, presentationUrl>>
vars == <<surface, landingText, landingLoading, landingError, text, presentationUrl,
          roadmapLoading, roadmapReady, showRoadmapDialog,
          videoLoading, videoReady, showVideoDialog, chatMessages, chatInput,
          requests, nextId, generated, objectUrls, staleAccess, openedBy, history, lastEvent>>

(* ------------------------------ requests ------------------------------- *)
\* JSON body of a request; key is the name of the field that carries the prompt
Body(key, prompt, download, message, chatHistory) ==
    [key |-> key, prompt |-> prompt, download |-> download,
     message |-> message, chatHistory |-> chatHistory]

\* a fetch in flight with what its handler's closure holds; copy tells apart
\* identical requests in flight together (download: "absent", "false", "true")
Request(copy, handler, trigger, endpoint, body, closureText) ==
    [copy |-> copy, handler |-> handler, trigger |-> trigger, endpoint |-> endpoint,
     body |-> body, closureText |-> closureText]

CanFetch == nextId < MaxRequests

\* nothing generated yet
NoRequest == [endpoint |-> "", body |-> Body("", <<>>, "absent", <<>>, <<>>)]

\* what a handler step did to the outside: alert() text, window.open target,
\* saved file name, console output; part is "call" for the handler up to its
\* await fetch and "resolve" for its continuation
Event(name, trigger, part, alert, opened, saved, console) ==
    [name |-> name, trigger |-> trigger, part |-> part, alert |-> alert,
     opened |-> opened, saved |-> saved, console |-> console]

NoEvent == Event("none", "none", "none", "", "", "", "")

\* a step of the user that runs no handler code worth reporting
UserEvent(name) == Event(name, "none", "none", "", "", "", "")

(* ------------------------------- Init ---------------------------------- *)
\* the state after construction, used of the request budget already spent
Start(used) ==
    /\ surface = "landing"
    /\ landingText = <<>>
    /\ landingLoading = FALSE
    /\ landingError = ""
    /\ text = <<>>
    /\ presentationUrl = ""
    /\ roadmapLoading = FALSE /\ roadmapReady = FALSE /\ showRoadmapDialog = FALSE
    /\ videoLoading = FALSE /\ videoReady = FALSE /\ showVideoDialog = FALSE
    /\ chatMessages = InitialChatMessages
    /\ chatInput = <<>>
    /\ requests = {}
    /\ nextId = used
    /\ generated = [f \in {"slides", "video", "network", "roadmap"} |-> NoRequest]
    /\ objectUrls = 0
    /\ staleAccess = {}
    /\ openedBy = [f \in {"roadmap", "video"} |-> "none"]
    /\ history = <<"/">>
    /\ lastEvent = NoEvent

Init == Start(0)

(* ------------------------- entry surface (Landing) --------------------- *)
\* InputTextarea onChange={(e) => setText(e.target.value)}
LandingSetText(s) ==
    /\ surface = "landing"
    /\ s # landingText
    /\ landingText' = s
    /\ lastEvent' = UserEvent("Landing.setText")
    /\ UNCHANGED <<surface, landingLoading, landingError, locationVars, dashVars, requests, nextId, generated, objectUrls, staleAccess, openedBy, history>>

\* the send button: disabled={loading || !text.trim()}
LandingSendDisabled == landingLoading \/ Trim(landingText) = <<>>

\* Landing.handleCreateSlides up to its await fetch
LandingHandleCreateSlides ==
    /\ surface = "landing"
    /\ ~LandingSendDisabled
    /\ IF Trim(landingText) = <<>>
       THEN /\ landingError' = MsgSlidesPrompt
            /\ lastEvent' = Event("Landing.handleCreateSlides", "generate", "call", "", "", "", "")
            /\ UNCHANGED <<landingLoading, requests, generated>>
       ELSE /\ landingLoading' = TRUE
            /\ landingError' = ""
            /\ requests' = requests \cup
                    {Request(1, "Landing.handleCreateSlides", "generate",
                             "/api/create_slides",
                             Body("text", Trim(landingText), "absent", <<>>, <<>>),
                             landingText)}
            /\ generated' = [generated EXCEPT !["slides"] =
                    [endpoint |-> "/api/create_slides",
                     body |-> Body("text", Trim(landingText), "absent", <<>>, <<>>)]]
            /\ lastEvent' = Event("Landing.handleCreateSlides", "generate", "call",
                                  "", "", "", "")
            /\ UNCHANGED nextId
    /\ UNCHANGED <<surface, landingText, locationVars, dashVars, objectUrls, staleAccess, openedBy, history>>

\* response checks that do not look at response.ok
LandingSlidesResult_IgnoresStatus(resp) ==
    IF resp.net THEN [err |-> MsgNetwork, url |-> ""]
    ELSE IF ~resp.json
         THEN (IF ~resp.ok THEN [err |-> MsgSlidesFailed, url |-> ""]
                           ELSE [err |-> MsgParse, url |-> ""])
    ELSE IF resp.presentationUrl = ""
         THEN [err |-> MsgSlidesNoLink, url |-> ""]
    ELSE [err |-> "", url |-> resp.presentationUrl]

\* the response checks of Landing.handleCreateSlides: the error thrown ("" if
\* none) and the link found
LandingSlidesResult(resp) ==
    IF resp.net THEN [err |-> MsgNetwork, url |-> ""]
    ELSE IF ~resp.json
         THEN (IF ~resp.ok THEN [err |-> MsgSlidesFailed, url |-> ""]
                           ELSE [err |-> MsgParse, url |-> ""])
    ELSE IF ~resp.ok
         THEN [err |-> (IF resp.error # "" THEN resp.error ELSE MsgSlidesFailed), url |-> ""]
    ELSE IF resp.presentationUrl = ""
         THEN [err |-> MsgSlidesNoLink, url |-> ""]
    ELSE [err |-> "", url |-> resp.presentationUrl]

\* Landing.handleCreateSlides without its finally block
LandingResolveCreateSlides_KeepsLoading(r, resp) ==
    /\ r \in requests
    /\ r.handler = "Landing.handleCreateSlides"
    /\ requests' = requests \ {r}
    /\ LET res == LandingSlidesResult(resp)
       IN  IF res.err = ""
           THEN \* navigate('/dashboard', { state: { presentationUrl, text } })
                /\ surface' = "dashboard"
                /\ presentationUrl' = res.url
                /\ text' = r.closureText
                \* Landing unmounts and its state is discarded
                /\ landingText' = <<>> /\ landingLoading' = FALSE /\ landingError' = ""
           ELSE /\ landingError' = res.err
                /\ UNCHANGED <<landingLoading, surface, landingText, locationVars>>
    /\ lastEvent' = Event("Landing.handleCreateSlides", r.trigger, "resolve", "", "", "", "")
    /\ history' = IF LandingSlidesResult(resp).err = ""
                  THEN Append(history, "/dashboard") ELSE history
    /\ UNCHANGED <<dashVars, nextId, generated, objectUrls, staleAccess, openedBy>>

\* Landing.handleCreateSlides from the resolution of its fetch on
LandingResolveCreateSlides(r, resp) ==
    /\ r \in requests
    /\ r.handler = "Landing.handleCreateSlides"
    /\ requests' = requests \ {r}
    /\ LET res == LandingSlidesResult(resp)
       IN  IF res.err = ""
           THEN \* navigate('/dashboard', { state: { presentationUrl, text } })
                /\ surface' = "dashboard"
                /\ presentationUrl' = res.url
                /\ text' = r.closureText
                \* Landing unmounts and its state is discarded
                /\ landingText' = <<>> /\ landingLoading' = FALSE /\ landingError' = ""
           ELSE /\ landingError' = res.err
                /\ landingLoading' = FALSE
                /\ UNCHANGED <<surface, landingText, locationVars>>
    /\ lastEvent' = Event("Landing.handleCreateSlides", r.trigger, "resolve", "", "", "", "")
    /\ history' = IF LandingSlidesResult(resp).err = ""
                  THEN Append(history, "/dashboard") ELSE history
    /\ UNCHANGED <<dashVars, nextId, generated, objectUrls, staleAccess, openedBy>>

\* the user loads /dashboard directly: a fresh page (no handler of the old
\* page survives) whose location carries no state
VisitDashboard ==
    /\ surface = "landing"
    /\ surface' = "dashboard"
    /\ text' = <<>>
    /\ presentationUrl' = ""
    /\ requests' = {}
    /\ landingText' = <<>> /\ landingLoading' = FALSE /\ landingError' = ""
    /\ generated' = [f \in DOMAIN generated |-> NoRequest]
    /\ lastEvent' = UserEvent("VisitDashboard")
    /\ history' = <<"/dashboard">>
    /\ UNCHANGED <<dashVars, nextId, objectUrls, staleAccess, openedBy>>

(* ------------------------- the /download route ------------------------- *)
\* <Route path="/download" element={<Download />} />: App passes no prop
DownloadPresentationUrl == ""

\* if (!presentationUrl) return null: the page renders its buttons only with a link
DownloadOffersActions == DownloadPresentationUrl # ""

\* the user loads /download directly: a fresh page (no handler of the old
\* page survives); the Download component mounts
VisitDownload ==
    /\ surface = "landing"
    /\ surface' = "download"
    /\ requests' = {}
    /\ landingText' = <<>> /\ landingLoading' = FALSE /\ landingError' = ""
    /\ generated' = [f \in DOMAIN generated |-> NoRequest]
    /\ lastEvent' = UserEvent("VisitDownload")
    /\ history' = <<"/download">>
    /\ UNCHANGED <<locationVars, dashVars, nextId, objectUrls, staleAccess, openedBy>>

\* the effect with a navigate that pushes a new history entry
DownloadRedirect_Pushes ==
    /\ surface = "download"
    /\ DownloadPresentationUrl = ""
    /\ surface' = "landing"
    /\ history' = Append(history, "/")
    /\ lastEvent' = Event("Download.useEffect", "none", "call", "", "", "", "")
    /\ UNCHANGED <<landingVars, locationVars, dashVars, requests, nextId, generated,
                   objectUrls, staleAccess, openedBy>>

\* useEffect: if (!presentationUrl) navigate('/', { replace: true }); the
\* entry surface mounts in its initial state
DownloadRedirect ==
    /\ surface = "download"
    /\ DownloadPresentationUrl = ""
    /\ surface' = "landing"
    /\ history' = [history EXCEPT ![Len(history)] = "/"]
    /\ lastEvent' = Event("Download.useEffect", "none", "call", "", "", "", "")
    /\ UNCHANGED <<landingVars, locationVars, dashVars, requests, nextId, generated,
                   objectUrls, staleAccess, openedBy>>

(* ---------------------- workflow surface: the cards -------------------- *)
Features == {"slides", "video", "network", "roadmap"}

\* features[..].content with a fixed link on the network card
Content_NetworkLinked(f) ==
    IF f = "slides" THEN presentationUrl ELSE IF f = "network" THEN "/api/network" ELSE ""

\* features[..].content
Content(f) == IF f = "slides" THEN presentationUrl ELSE ""

isLoading(f) == (f = "roadmap" /\ roadmapLoading) \/ (f = "video" /\ videoLoading)

isReady(f) == (f = "roadmap" /\ roadmapReady) \/ (f = "video" /\ videoReady)

\* the card renders the single Generate button (else the Redo + access pair)
ShowsGenerate(f) == Content(f) = "" /\ ~isReady(f)

\* disabled={isLoading} of the Generate button
GenerateDisabled(f) == isLoading(f)

\* the Redo button carries no disabled prop
RedoDisabled(f) == FALSE

\* the phase a card displays
Phase(f) ==
    IF ShowsGenerate(f) THEN (IF GenerateDisabled(f) THEN "generating" ELSE "idle")
    ELSE "ready"

\* a visible modal Dialog masks the page behind it
ModalOpen == showRoadmapDialog \/ showVideoDialog

PageClickable == surface = "dashboard" /\ ~ModalOpen

\* a handler step that touches no React state and issues no request
OnlyEvent(e) ==
    /\ lastEvent' = e
    /\ UNCHANGED <<surface, landingVars, locationVars, dashVars, requests, nextId, generated, objectUrls, staleAccess, openedBy, history>>

\* the feature a handler of the workflow surface belongs to
FeatureOf(handler) ==
    CASE handler \in {"handleCreateSlides"} -> "slides"
      [] handler \in {"handleCreateNetwork"} -> "network"
      [] handler \in {"handleCreateRoadmap", "handleViewRoadmap", "handleDownloadRoadmap"} -> "roadmap"
      [] handler \in {"handleCreateVideo", "handleViewVideo", "handleDownloadVideo"} -> "video"
      [] OTHER -> "chat"

\* the handlers behind the two buttons of a result dialog
RoadmapAccess == {"handleViewRoadmap", "handleDownloadRoadmap"}

VideoAccess == {"handleViewVideo", "handleDownloadVideo"}

\* bookkeeping of openedBy in a step that has set both dialogs' visibility:
\* a dialog that becomes visible in the step was made visible by how
TrackOpening(how) ==
    openedBy' = [f \in {"roadmap", "video"} |->
        IF f = "roadmap"
        THEN (IF ~showRoadmapDialog' THEN "none"
              ELSE IF showRoadmapDialog THEN openedBy[f] ELSE how)
        ELSE (IF ~showVideoDialog' THEN "none"
              ELSE IF showVideoDialog THEN openedBy[f] ELSE how)]

\* the requests of some handlers that have not resolved
Outstanding(handlers) == {r \in requests : r.handler \in handlers}

\* await fetch(endpoint, body) inside a handler: the request is in flight
Fetch(handler, trigger, endpoint, body) ==
    /\ CanFetch
    /\ LET copy == CHOOSE k \in 1..(Cardinality(requests) + 1) :
                        /\ Request(k, handler, trigger, endpoint, body, <<>>) \notin requests
                        /\ \A j \in 1..(k - 1) :
                              Request(j, handler, trigger, endpoint, body, <<>>) \in requests
       IN  requests' = requests \cup {Request(copy, handler, trigger, endpoint, body, <<>>)}
    /\ lastEvent' = Event(handler, trigger, "call", "", "", "", "")
    /\ nextId' = nextId + 1
    /\ generated' = IF trigger = "generate"
                    THEN [generated EXCEPT ![FeatureOf(handler)] =
                             [endpoint |-> endpoint, body |-> body]]
                    ELSE generated
    /\ UNCHANGED <<objectUrls, staleAccess, openedBy, history>>

\* window.URL.createObjectURL(blob) and window.URL.revokeObjectURL(url), on the
\* number of blob URLs the document holds
createObjectURL(n) == n + 1

revokeObjectURL(n) == n - 1

\* the continuation of a handler takes its response
Take(r, handler) ==
    /\ r \in requests
    /\ r.handler = handler
    /\ requests' = requests \ {r}
    /\ UNCHANGED <<nextId, generated>>

\* state setters of an unmounted component do nothing
Mounted == surface = "dashboard"

(* ------------------------------- slides -------------------------------- *)
SlidesBody == Body("text", text, "absent", <<>>, <<>>)

\* handleCreateSlides up to its await fetch
handleCreateSlides(trigger) ==
    IF Trim(text) = <<>>
    THEN OnlyEvent(Event("handleCreateSlides", trigger, "call", MsgSlidesPrompt, "", "", ""))
    ELSE /\ Fetch("handleCreateSlides", trigger, "/api/create_slides", SlidesBody)
         /\ UNCHANGED <<surface, landingVars, locationVars, dashVars>>

\* response checks that do not look for presentationUrl
SlidesResult_AcceptsMissingLink(resp) ==
    IF resp.net THEN [err |-> MsgNetwork, url |-> ""]
    ELSE IF ~resp.json
         THEN (IF ~resp.ok THEN [err |-> MsgSlidesFailed, url |-> ""]
                           ELSE [err |-> MsgParse, url |-> ""])
    ELSE IF ~resp.ok
         THEN [err |-> (IF resp.error # "" THEN resp.error ELSE MsgSlidesFailed), url |-> ""]
    ELSE [err |-> "", url |-> resp.presentationUrl]

\* the response checks of handleCreateSlides
SlidesResult(resp) ==
    IF resp.net THEN [err |-> MsgNetwork, url |-> ""]
    ELSE IF ~resp.json
         THEN (IF ~resp.ok THEN [err |-> MsgSlidesFailed, url |-> ""]
                           ELSE [err |-> MsgParse, url |-> ""])
    ELSE IF ~resp.ok
         THEN [err |-> (IF resp.error # "" THEN resp.error ELSE MsgSlidesFailed), url |-> ""]
    ELSE IF resp.presentationUrl = ""
         THEN [err |-> MsgSlidesNoLink, url |-> ""]
    ELSE [err |-> "", url |-> resp.presentationUrl]

\* handleCreateSlides that keeps the new link as the card's content
ResolveCreateSlides_StoresLink(r, resp) ==
    /\ Take(r, "handleCreateSlides")
    /\ UNCHANGED <<objectUrls, staleAccess, openedBy, history>>
    /\ LET res == SlidesResult(resp)
       IN  lastEvent' = Event("handleCreateSlides", r.trigger, "resolve", res.err, res.url, "", "")
    /\ presentationUrl' = IF Mounted /\ SlidesResult(resp).err = ""
                        THEN SlidesResult(resp).url ELSE presentationUrl
    /\ UNCHANGED <<surface, landingVars, text, dashVars>>

\* handleCreateSlides from the resolution of its fetch on
ResolveCreateSlides(r, resp) ==
    /\ Take(r, "handleCreateSlides")
    /\ UNCHANGED <<objectUrls, staleAccess, openedBy, history>>
    /\ LET res == SlidesResult(resp)
       IN  lastEvent' = Event("handleCreateSlides", r.trigger, "resolve", res.err, res.url, "", "")
    /\ UNCHANGED <<surface, landingVars, locationVars, dashVars>>

(* ------------------------------- network ------------------------------- *)
NetworkBody == Body("idea", text, "absent", <<>>, <<>>)

\* handleCreateNetwork with the prompt validation of the other handlers
handleCreateNetwork_Validates(trigger) ==
    IF Trim(text) = <<>>
    THEN OnlyEvent(Event("handleCreateNetwork", trigger, "call", MsgSlidesPrompt, "", "", ""))
    ELSE /\ Fetch("handleCreateNetwork", trigger, "/api/find-investors", NetworkBody)
         /\ UNCHANGED <<surface, landingVars, locationVars, dashVars>>

\* handleCreateNetwork up to its await fetch
handleCreateNetwork(trigger) ==
    /\ Fetch("handleCreateNetwork", trigger, "/api/find-investors", NetworkBody)
    /\ UNCHANGED <<surface, landingVars, locationVars, dashVars>>

\* handleCreateNetwork from the resolution of its fetch on
ResolveCreateNetwork(r, resp) ==
    /\ Take(r, "handleCreateNetwork")
    /\ UNCHANGED <<objectUrls, staleAccess, openedBy, history>>
    /\ lastEvent' = Event("handleCreateNetwork", r.trigger, "resolve", "", "", "",
                          IF resp.net \/ ~resp.json THEN "error" ELSE "log")
    /\ UNCHANGED <<surface, landingVars, locationVars, dashVars>>

(* ------------------------------- roadmap ------------------------------- *)
RoadmapBody(download) == Body("text", Trim(text), download, <<>>, <<>>)

\* handleCreateRoadmap without its setRoadmapReady(false)
handleCreateRoadmap_KeepsReady(trigger) ==
    IF Trim(text) = <<>>
    THEN OnlyEvent(Event("handleCreateRoadmap", trigger, "call", MsgRoadmapPrompt, "", "", ""))
    ELSE /\ Fetch("handleCreateRoadmap", trigger, "/api/create_roadmap", RoadmapBody("false"))
         /\ roadmapLoading' = TRUE
         /\ UNCHANGED <<surface, landingVars, locationVars, roadmapReady, showRoadmapDialog,
                        videoLoading, videoReady, showVideoDialog, chatMessages, chatInput>>

\* handleCreateRoadmap up to its await fetch
handleCreateRoadmap(trigger) ==
    IF Trim(text) = <<>>
    THEN OnlyEvent(Event("handleCreateRoadmap", trigger, "call", MsgRoadmapPrompt, "", "", ""))
    ELSE /\ Fetch("handleCreateRoadmap", trigger, "/api/create_roadmap", RoadmapBody("false"))
         /\ roadmapLoading' = TRUE
         /\ roadmapReady' = FALSE
         /\ UNCHANGED <<surface, landingVars, locationVars, showRoadmapDialog,
                        videoLoading, videoReady, showVideoDialog, chatMessages, chatInput>>

\* the error handleCreateRoadmap throws on a response ("" if none)
RoadmapCreateError(resp) ==
    IF resp.net THEN MsgNetwork
    ELSE IF resp.ok THEN ""
    ELSE IF ~resp.json THEN MsgParse
    ELSE IF resp.error # "" THEN resp.error ELSE MsgRoadmapFailed

\* handleCreateRoadmap that marks the roadmap ready without opening the dialog
ResolveCreateRoadmap_NoDialog(r, resp) ==
    /\ Take(r, "handleCreateRoadmap")
    /\ UNCHANGED <<objectUrls, history>>
    /\ staleAccess' = IF Mounted /\ RoadmapCreateError(resp) = "" /\ ~showRoadmapDialog
                      THEN staleAccess \cup Outstanding(RoadmapAccess) ELSE staleAccess
    /\ LET err == RoadmapCreateError(resp)
       IN  /\ lastEvent' = Event("handleCreateRoadmap", r.trigger, "resolve", err, "", "", "")
           /\ IF ~Mounted
              THEN UNCHANGED <<roadmapLoading, roadmapReady, showRoadmapDialog>>
              ELSE IF err = ""
              THEN roadmapReady' = TRUE /\ roadmapLoading' = FALSE /\ UNCHANGED showRoadmapDialog
              ELSE roadmapLoading' = FALSE /\ UNCHANGED <<roadmapReady, showRoadmapDialog>>
    /\ UNCHANGED <<surface, landingVars, locationVars,
                   videoLoading, videoReady, showVideoDialog, chatMessages, chatInput>>
    /\ TrackOpening("generation")

\* handleCreateRoadmap from the resolution of its fetch on
ResolveCreateRoadmap(r, resp) ==
    /\ Take(r, "handleCreateRoadmap")
    /\ UNCHANGED <<objectUrls, history>>
    /\ staleAccess' = IF Mounted /\ RoadmapCreateError(resp) = "" /\ ~showRoadmapDialog
                      THEN staleAccess \cup Outstanding(RoadmapAccess) ELSE staleAccess
    /\ LET err == RoadmapCreateError(resp)
       IN  /\ lastEvent' = Event("handleCreateRoadmap", r.trigger, "resolve", err, "", "", "")
           /\ IF ~Mounted
              THEN UNCHANGED <<roadmapLoading, roadmapReady, showRoadmapDialog>>
              ELSE IF err = ""
              THEN roadmapReady' = TRUE /\ showRoadmapDialog' = TRUE /\ roadmapLoading' = FALSE
              ELSE roadmapLoading' = FALSE /\ UNCHANGED <<roadmapReady, showRoadmapDialog>>
    /\ UNCHANGED <<surface, landingVars, locationVars,
                   videoLoading, videoReady, showVideoDialog, chatMessages, chatInput>>
    /\ TrackOpening("generation")

\* handleViewRoadmap (the dialog's "View in Browser") up to its await fetch
handleViewRoadmap ==
    /\ Mounted /\ showRoadmapDialog
    /\ Fetch("handleViewRoadmap", "view", "/api/create_roadmap", RoadmapBody("false"))
    /\ UNCHANGED <<surface, landingVars, locationVars, dashVars>>

\* handleViewRoadmap that also clears roadmapReady once the artifact is opened
ResolveViewRoadmap_ClearsReady(r, resp) ==
    /\ Take(r, "handleViewRoadmap")
    /\ staleAccess' = staleAccess \ {r}
    /\ UNCHANGED history
    /\ LET err == IF resp.net THEN MsgNetwork ELSE IF ~resp.ok THEN MsgRoadmapRetrieve ELSE ""
       IN  /\ lastEvent' = Event("handleViewRoadmap", r.trigger, "resolve", err,
                                 IF err = "" THEN "blob:roadmap" ELSE "", "", "")
           /\ showRoadmapDialog' = IF Mounted /\ err = "" THEN FALSE ELSE showRoadmapDialog
           /\ objectUrls' = IF err = "" THEN createObjectURL(objectUrls) ELSE objectUrls
           /\ roadmapReady' = IF Mounted /\ err = "" THEN FALSE ELSE roadmapReady
    /\ UNCHANGED <<surface, landingVars, locationVars, roadmapLoading,
                   videoLoading, videoReady, showVideoDialog, chatMessages, chatInput>>
    /\ TrackOpening("none")

\* handleViewRoadmap from the resolution of its fetch on
ResolveViewRoadmap(r, resp) ==
    /\ Take(r, "handleViewRoadmap")
    /\ staleAccess' = staleAccess \ {r}
    /\ UNCHANGED history
    /\ LET err == IF resp.net THEN MsgNetwork ELSE IF ~resp.ok THEN MsgRoadmapRetrieve ELSE ""
       IN  /\ lastEvent' = Event("handleViewRoadmap", r.trigger, "resolve", err,
                                 IF err = "" THEN "blob:roadmap" ELSE "", "", "")
           /\ showRoadmapDialog' = IF Mounted /\ err = "" THEN FALSE ELSE showRoadmapDialog
           /\ objectUrls' = IF err = "" THEN createObjectURL(objectUrls) ELSE objectUrls
    /\ UNCHANGED <<surface, landingVars, locationVars, roadmapLoading, roadmapReady,
                   videoLoading, videoReady, showVideoDialog, chatMessages, chatInput>>
    /\ TrackOpening("none")

\* handleDownloadRoadmap that sends the prompt without trimming it
handleDownloadRoadmap_Untrimmed ==
    /\ Mounted /\ showRoadmapDialog
    /\ Fetch("handleDownloadRoadmap", "download", "/api/create_roadmap",
             Body("text", text, "true", <<>>, <<>>))
    /\ UNCHANGED <<surface, landingVars, locationVars, dashVars>>

\* handleDownloadRoadmap (the dialog's "Download PDF") up to its await fetch
handleDownloadRoadmap ==
    /\ Mounted /\ showRoadmapDialog
    /\ Fetch("handleDownloadRoadmap", "download", "/api/create_roadmap", RoadmapBody("true"))
    /\ UNCHANGED <<surface, landingVars, locationVars, dashVars>>

\* handleDownloadRoadmap from the resolution of its fetch on
ResolveDownloadRoadmap(r, resp) ==
    /\ Take(r, "handleDownloadRoadmap")
    /\ staleAccess' = staleAccess \ {r}
    /\ UNCHANGED history
    /\ LET err == IF resp.net THEN MsgNetwork ELSE IF ~resp.ok THEN MsgRoadmapDownload ELSE ""
       IN  /\ lastEvent' = Event("handleDownloadRoadmap", r.trigger, "resolve", err, "",
                                 IF err = "" THEN RoadmapFile ELSE "", "")
           /\ showRoadmapDialog' = IF Mounted /\ err = "" THEN FALSE ELSE showRoadmapDialog
           /\ objectUrls' = IF err = ""
                            THEN revokeObjectURL(createObjectURL(objectUrls))
                            ELSE objectUrls
    /\ UNCHANGED <<surface, landingVars, locationVars, roadmapLoading, roadmapReady,
                   videoLoading, videoReady, showVideoDialog, chatMessages, chatInput>>
    /\ TrackOpening("none")

\* an onHide that also forgets the roadmap
HideRoadmapDialog_ClearsReady ==
    /\ Mounted /\ showRoadmapDialog
    /\ showRoadmapDialog' = FALSE
    /\ lastEvent' = UserEvent("HideRoadmapDialog")
    /\ roadmapReady' = FALSE
    /\ UNCHANGED <<surface, landingVars, locationVars, roadmapLoading,
                   videoLoading, videoReady, showVideoDialog, chatMessages, chatInput,
                   requests, nextId, generated, objectUrls, staleAccess, history>>
    /\ openedBy' = [openedBy EXCEPT !["roadmap"] = "none"]

\* Dialog "Roadmap Ready": onHide
HideRoadmapDialog ==
    /\ Mounted /\ showRoadmapDialog
    /\ showRoadmapDialog' = FALSE
    /\ lastEvent' = UserEvent("HideRoadmapDialog")
    /\ UNCHANGED <<surface, landingVars, locationVars, roadmapLoading, roadmapReady,
                   videoLoading, videoReady, showVideoDialog, chatMessages, chatInput,
                   requests, nextId, generated, objectUrls, staleAccess, history>>
    /\ openedBy' = [openedBy EXCEPT !["roadmap"] = "none"]

(* -------------------------------- video -------------------------------- *)
VideoBody(download) == Body("text", Trim(text), download, <<>>, <<>>)

\* handleCreateVideo that also clears the roadmap's ready flag
handleCreateVideo_ResetsRoadmap(trigger) ==
    IF Trim(text) = <<>>
    THEN OnlyEvent(Event("handleCreateVideo", trigger, "call", MsgVideoPrompt, "", "", ""))
    ELSE /\ Fetch("handleCreateVideo", trigger, "/api/create_video", VideoBody("false"))
         /\ videoLoading' = TRUE
         /\ videoReady' = FALSE
         /\ roadmapReady' = FALSE
         /\ UNCHANGED <<surface, landingVars, locationVars, showVideoDialog,
                        roadmapLoading, showRoadmapDialog, chatMessages, chatInput>>

\* handleCreateVideo without its setVideoReady(false)
handleCreateVideo_KeepsReady(trigger) ==
    IF Trim(text) = <<>>
    THEN OnlyEvent(Event("handleCreateVideo", trigger, "call", MsgVideoPrompt, "", "", ""))
    ELSE /\ Fetch("handleCreateVideo", trigger, "/api/create_video", VideoBody("false"))
         /\ videoLoading' = TRUE
         /\ UNCHANGED <<surface, landingVars, locationVars, showVideoDialog, videoReady,
                        roadmapLoading, roadmapReady, showRoadmapDialog, chatMessages, chatInput>>

\* handleCreateVideo up to its await fetch
handleCreateVideo(trigger) ==
    IF Trim(text) = <<>>
    THEN OnlyEvent(Event("handleCreateVideo", trigger, "call", MsgVideoPrompt, "", "", ""))
    ELSE /\ Fetch("handleCreateVideo", trigger, "/api/create_video", VideoBody("false"))
         /\ videoLoading' = TRUE
         /\ videoReady' = FALSE
         /\ UNCHANGED <<surface, landingVars, locationVars, showVideoDialog,
                        roadmapLoading, roadmapReady, showRoadmapDialog, chatMessages, chatInput>>

\* a check that takes a non-2xx response without an error field for a success
VideoCreateError_TrustsBody(resp) ==
    IF resp.net THEN MsgNetwork
    ELSE IF resp.ok THEN ""
    ELSE IF ~resp.json THEN MsgParse
    ELSE resp.error

\* the error handleCreateVideo throws on a response ("" if none)
VideoCreateError(resp) ==
    IF resp.net THEN MsgNetwork
    ELSE IF resp.ok THEN ""
    ELSE IF ~resp.json THEN MsgParse
    ELSE IF resp.error # "" THEN resp.error ELSE MsgVideoFailed

\* handleCreateVideo whose success is dropped while the roadmap is generating
ResolveCreateVideo_YieldsToRoadmap(r, resp) ==
    /\ Take(r, "handleCreateVideo")
    /\ UNCHANGED <<objectUrls, history>>
    /\ staleAccess' = IF Mounted /\ VideoCreateError(resp) = "" /\ ~showVideoDialog
                      THEN staleAccess \cup Outstanding(VideoAccess) ELSE staleAccess
    /\ LET err == VideoCreateError(resp)
       IN  /\ lastEvent' = Event("handleCreateVideo", r.trigger, "resolve", err, "", "", "")
           /\ IF ~Mounted
              THEN UNCHANGED <<videoLoading, videoReady, showVideoDialog>>
              ELSE IF err = ""
              THEN /\ videoReady' = ~roadmapLoading /\ showVideoDialog' = ~roadmapLoading
                   /\ videoLoading' = FALSE
              ELSE videoLoading' = FALSE /\ UNCHANGED <<videoReady, showVideoDialog>>
    /\ UNCHANGED <<surface, landingVars, locationVars,
                   roadmapLoading, roadmapReady, showRoadmapDialog, chatMessages, chatInput>>
    /\ TrackOpening("generation")

\* handleCreateVideo without its finally block on the failure path
ResolveCreateVideo_KeepsLoading(r, resp) ==
    /\ Take(r, "handleCreateVideo")
    /\ UNCHANGED <<objectUrls, history>>
    /\ staleAccess' = IF Mounted /\ VideoCreateError(resp) = "" /\ ~showVideoDialog
                      THEN staleAccess \cup Outstanding(VideoAccess) ELSE staleAccess
    /\ LET err == VideoCreateError(resp)
       IN  /\ lastEvent' = Event("handleCreateVideo", r.trigger, "resolve", err, "", "", "")
           /\ IF ~Mounted
              THEN UNCHANGED <<videoLoading, videoReady, showVideoDialog>>
              ELSE IF err = ""
              THEN videoReady' = TRUE /\ showVideoDialog' = TRUE /\ videoLoading' = FALSE
              ELSE UNCHANGED <<videoLoading, videoReady, showVideoDialog>>
    /\ UNCHANGED <<surface, landingVars, locationVars,
                   roadmapLoading, roadmapReady, showRoadmapDialog, chatMessages, chatInput>>
    /\ TrackOpening("generation")

\* handleCreateVideo from the resolution of its fetch on
ResolveCreateVideo(r, resp) ==
    /\ Take(r, "handleCreateVideo")
    /\ UNCHANGED <<objectUrls, history>>
    /\ staleAccess' = IF Mounted /\ VideoCreateError(resp) = "" /\ ~showVideoDialog
                      THEN staleAccess \cup Outstanding(VideoAccess) ELSE staleAccess
    /\ LET err == VideoCreateError(resp)
       IN  /\ lastEvent' = Event("handleCreateVideo", r.trigger, "resolve", err, "", "", "")
           /\ IF ~Mounted
              THEN UNCHANGED <<videoLoading, videoReady, showVideoDialog>>
              ELSE IF err = ""
              THEN videoReady' = TRUE /\ showVideoDialog' = TRUE /\ videoLoading' = FALSE
              ELSE videoLoading' = FALSE /\ UNCHANGED <<videoReady, showVideoDialog>>
    /\ UNCHANGED <<surface, landingVars, locationVars,
                   roadmapLoading, roadmapReady, showRoadmapDialog, chatMessages, chatInput>>
    /\ TrackOpening("generation")

\* handleViewVideo (the dialog's "View in Browser") up to its await fetch
handleViewVideo ==
    /\ Mounted /\ showVideoDialog
    /\ Fetch("handleViewVideo", "view", "/api/create_video", VideoBody("false"))
    /\ UNCHANGED <<surface, landingVars, locationVars, dashVars>>

\* handleViewVideo from the resolution of its fetch on
ResolveViewVideo(r, resp) ==
    /\ Take(r, "handleViewVideo")
    /\ staleAccess' = staleAccess \ {r}
    /\ UNCHANGED history
    /\ LET err == IF resp.net THEN MsgNetwork ELSE IF ~resp.ok THEN MsgVideoRetrieve ELSE ""
       IN  /\ lastEvent' = Event("handleViewVideo", r.trigger, "resolve", err,
                                 IF err = "" THEN "blob:video" ELSE "", "", "")
           /\ showVideoDialog' = IF Mounted /\ err = "" THEN FALSE ELSE showVideoDialog
           /\ objectUrls' = IF err = "" THEN createObjectURL(objectUrls) ELSE objectUrls
    /\ UNCHANGED <<surface, landingVars, locationVars, videoLoading, videoReady,
                   roadmapLoading, roadmapReady, showRoadmapDialog, chatMessages, chatInput>>
    /\ TrackOpening("none")

\* handleDownloadVideo (the dialog's "Download MP4") up to its await fetch
handleDownloadVideo ==
    /\ Mounted /\ showVideoDialog
    /\ Fetch("handleDownloadVideo", "download", "/api/create_video", VideoBody("true"))
    /\ UNCHANGED <<surface, landingVars, locationVars, dashVars>>

\* handleDownloadVideo that closes the dialog whether or not the download worked
ResolveDownloadVideo_ClosesAlways(r, resp) ==
    /\ Take(r, "handleDownloadVideo")
    /\ staleAccess' = staleAccess \ {r}
    /\ UNCHANGED history
    /\ LET err == IF resp.net THEN MsgNetwork ELSE IF ~resp.ok THEN MsgVideoDownload ELSE ""
       IN  /\ lastEvent' = Event("handleDownloadVideo", r.trigger, "resolve", err, "",
                                 IF err = "" THEN VideoFile ELSE "", "")
           /\ showVideoDialog' = FALSE
           /\ objectUrls' = IF err = ""
                            THEN revokeObjectURL(createObjectURL(objectUrls))
                            ELSE objectUrls
    /\ UNCHANGED <<surface, landingVars, locationVars, videoLoading, videoReady,
                   roadmapLoading, roadmapReady, showRoadmapDialog, chatMessages, chatInput>>
    /\ TrackOpening("none")

\* handleDownloadVideo from the resolution of its fetch on
ResolveDownloadVideo(r, resp) ==
    /\ Take(r, "handleDownloadVideo")
    /\ staleAccess' = staleAccess \ {r}
    /\ UNCHANGED history
    /\ LET err == IF resp.net THEN MsgNetwork ELSE IF ~resp.ok THEN MsgVideoDownload ELSE ""
       IN  /\ lastEvent' = Event("handleDownloadVideo", r.trigger, "resolve", err, "",
                                 IF err = "" THEN VideoFile ELSE "", "")
           /\ showVideoDialog' = IF Mounted /\ err = "" THEN FALSE ELSE showVideoDialog
           /\ objectUrls' = IF err = ""
                            THEN revokeObjectURL(createObjectURL(objectUrls))
                            ELSE objectUrls
    /\ UNCHANGED <<surface, landingVars, locationVars, videoLoading, videoReady,
                   roadmapLoading, roadmapReady, showRoadmapDialog, chatMessages, chatInput>>
    /\ TrackOpening("none")

\* Dialog "Video Ready": onHide
HideVideoDialog ==
    /\ Mounted /\ showVideoDialog
    /\ showVideoDialog' = FALSE
    /\ lastEvent' = UserEvent("HideVideoDialog")
    /\ UNCHANGED <<surface, landingVars, locationVars, roadmapLoading, roadmapReady,
                   showRoadmapDialog, videoLoading, videoReady, chatMessages, chatInput,
                   requests, nextId, generated, objectUrls, staleAccess, history>>
    /\ openedBy' = [openedBy EXCEPT !["video"] = "none"]

(* --------------------------------- chat -------------------------------- *)
\* InputTextarea onChange={(e) => setChatInput(e.target.value)}
setChatInput(s) ==
    /\ PageClickable
    /\ s # chatInput
    /\ chatInput' = s
    /\ lastEvent' = UserEvent("setChatInput")
    /\ UNCHANGED <<surface, landingVars, locationVars, roadmapLoading, roadmapReady,
                   showRoadmapDialog, videoLoading, videoReady, showVideoDialog,
                   chatMessages, requests, nextId, generated, objectUrls, staleAccess, openedBy, history>>

\* a request body that carries the message trimmed
ChatBody_TrimsMessage == Body("businessIdea", Trim(text), "absent", Trim(chatInput), chatMessages)

\* a request body whose chatHistory leaves out the greeting
ChatBody_DropsGreeting ==
    Body("businessIdea", Trim(text), "absent", chatInput, Tail(chatMessages))

\* a request body whose chatHistory already holds the message being sent
ChatBody_IncludesOwnMessage ==
    Body("businessIdea", Trim(text), "absent", chatInput,
         Append(chatMessages, [role |-> "user", text |-> chatInput]))

\* body of the /api/chat request: chatHistory is the chatMessages of the render
\* the handler was created in
ChatBody == Body("businessIdea", Trim(text), "absent", chatInput, chatMessages)

\* handleChatSubmit that shows only the message just sent
handleChatSubmit_KeepsLastOnly ==
    /\ PageClickable
    /\ IF Trim(chatInput) = <<>>
       THEN OnlyEvent(Event("handleChatSubmit", "chat", "call", "", "", "", ""))
       ELSE /\ chatMessages' = <<[role |-> "user", text |-> chatInput]>>
            /\ chatInput' = <<>>
            /\ Fetch("handleChatSubmit", "chat", "/api/chat", ChatBody)
            /\ UNCHANGED <<surface, landingVars, locationVars, roadmapLoading, roadmapReady,
                           showRoadmapDialog, videoLoading, videoReady, showVideoDialog>>

\* handleChatSubmit up to its await fetch
handleChatSubmit ==
    /\ PageClickable
    /\ IF Trim(chatInput) = <<>>
       THEN OnlyEvent(Event("handleChatSubmit", "chat", "call", "", "", "", ""))
       ELSE /\ chatMessages' = Append(chatMessages, [role |-> "user", text |-> chatInput])
            /\ chatInput' = <<>>
            /\ Fetch("handleChatSubmit", "chat", "/api/chat", ChatBody)
            /\ UNCHANGED <<surface, landingVars, locationVars, roadmapLoading, roadmapReady,
                           showRoadmapDialog, videoLoading, videoReady, showVideoDialog>>

\* a reply that shows data.response as it comes, without the || default
ChatReply_EmptyOnMissing(resp) ==
    IF resp.net \/ ~resp.json \/ ~resp.ok
    THEN [role |-> "assistant", text |-> ChatFallback]
    ELSE [role |-> "assistant", text |-> resp.response]

\* a reply that shows the server's error text when the response carries one
ChatReply_ShowsServerError(resp) ==
    IF resp.net \/ ~resp.json \/ (~resp.ok /\ resp.error = "")
    THEN [role |-> "assistant", text |-> ChatFallback]
    ELSE IF ~resp.ok THEN [role |-> "assistant", text |-> Lit(resp.error)]
    ELSE [role |-> "assistant",
          text |-> IF resp.response # <<>> THEN resp.response ELSE ChatNoReply]

\* the assistant message handleChatSubmit appends for a response
ChatReply(resp) ==
    IF resp.net \/ ~resp.json \/ ~resp.ok
    THEN [role |-> "assistant", text |-> ChatFallback]
    ELSE [role |-> "assistant",
          text |-> IF resp.response # <<>> THEN resp.response ELSE ChatNoReply]

\* handleChatSubmit that appends nothing when its request fails
ResolveChatSubmit_DropsFailure(r, resp) ==
    /\ Take(r, "handleChatSubmit")
    /\ UNCHANGED <<objectUrls, staleAccess, openedBy, history>>
    /\ chatMessages' = IF Mounted /\ ~(resp.net \/ ~resp.json \/ ~resp.ok)
                       THEN Append(chatMessages, ChatReply(resp)) ELSE chatMessages
    /\ lastEvent' = Event("handleChatSubmit", r.trigger, "resolve", "", "", "",
                          IF resp.net \/ ~resp.json \/ ~resp.ok THEN "error" ELSE "")
    /\ UNCHANGED <<surface, landingVars, locationVars, roadmapLoading, roadmapReady,
                   showRoadmapDialog, videoLoading, videoReady, showVideoDialog, chatInput>>

\* handleChatSubmit that puts the reply right after the user message of its turn
ResolveChatSubmit_InsertsAfterOwnMessage(r, resp) ==
    /\ Take(r, "handleChatSubmit")
    /\ UNCHANGED <<objectUrls, staleAccess, openedBy, history>>
    /\ chatMessages' =
          IF Mounted
          THEN LET k == Len(r.body.chatHistory) + 1
               IN  SubSeq(chatMessages, 1, k) \o <<ChatReply(resp)>>
                     \o SubSeq(chatMessages, k + 1, Len(chatMessages))
          ELSE chatMessages
    /\ lastEvent' = Event("handleChatSubmit", r.trigger, "resolve", "", "", "",
                          IF resp.net \/ ~resp.json \/ ~resp.ok THEN "error" ELSE "")
    /\ UNCHANGED <<surface, landingVars, locationVars, roadmapLoading, roadmapReady,
                   showRoadmapDialog, videoLoading, videoReady, showVideoDialog, chatInput>>

\* handleChatSubmit from the resolution of its fetch on
ResolveChatSubmit(r, resp) ==
    /\ Take(r, "handleChatSubmit")
    /\ UNCHANGED <<objectUrls, staleAccess, openedBy, history>>
    /\ chatMessages' = IF Mounted THEN Append(chatMessages, ChatReply(resp)) ELSE chatMessages
    /\ lastEvent' = Event("handleChatSubmit", r.trigger, "resolve", "", "", "",
                          IF resp.net \/ ~resp.json \/ ~resp.ok THEN "error" ELSE "")
    /\ UNCHANGED <<surface, landingVars, locationVars, roadmapLoading, roadmapReady,
                   showRoadmapDialog, videoLoading, videoReady, showVideoDialog, chatInput>>

(* --------------------------- the card triggers ------------------------- *)
\* onClick of the Generate button
GenerateOnClick(f) ==
    CASE f = "roadmap" -> handleCreateRoadmap("generate")
      [] f = "video"   -> handleCreateVideo("generate")
      [] f = "network" -> handleCreateNetwork("generate")
      [] f = "slides"  -> handleCreateSlides("generate")

\* onClick of the Redo button
RedoOnClick(f) ==
    CASE f = "roadmap" -> handleCreateRoadmap("redo")
      [] f = "video"   -> handleCreateVideo("redo")
      [] f = "network" -> handleCreateNetwork("redo")
      [] f = "slides"  -> handleCreateSlides("redo")

\* onClick of the access button next to Redo
AccessOnClick(f) ==
    CASE f = "roadmap" ->
            /\ showRoadmapDialog' = TRUE
            /\ staleAccess' = staleAccess \cup Outstanding(RoadmapAccess)
            /\ openedBy' = [openedBy EXCEPT !["roadmap"] = "access"]
            /\ lastEvent' = UserEvent("access")
            /\ UNCHANGED <<surface, landingVars, locationVars, roadmapLoading, roadmapReady,
                           videoLoading, videoReady, showVideoDialog, chatMessages, chatInput,
                           requests, nextId, generated, objectUrls, history>>
      [] f = "video" ->
            /\ showVideoDialog' = TRUE
            /\ staleAccess' = staleAccess \cup Outstanding(VideoAccess)
            /\ openedBy' = [openedBy EXCEPT !["video"] = "access"]
            /\ lastEvent' = UserEvent("access")
            /\ UNCHANGED <<surface, landingVars, locationVars, roadmapLoading, roadmapReady,
                           showRoadmapDialog, videoLoading, videoReady, chatMessages, chatInput,
                           requests, nextId, generated, objectUrls, history>>
      [] f = "network" -> handleCreateNetwork("access")
      [] f = "slides" ->
            OnlyEvent(Event("access", "access", "call", "", Content(f), "", ""))

\* the user clicks the Generate button of a card
ClickGenerate(f) ==
    /\ PageClickable
    /\ ShowsGenerate(f)
    /\ ~GenerateDisabled(f)
    /\ GenerateOnClick(f)

\* the user clicks the Redo button of a card
ClickRedo(f) ==
    /\ PageClickable
    /\ ~ShowsGenerate(f)
    /\ ~RedoDisabled(f)
    /\ RedoOnClick(f)

\* the user clicks the access button of a card
ClickAccess(f) ==
    /\ PageClickable
    /\ ~ShowsGenerate(f)
    /\ AccessOnClick(f)

(* ------------------------------- teardown ------------------------------ *)
\* the user leaves the workflow surface: the Dashboard element unmounts, its
\* state is discarded; handlers awaiting a response keep running
NavigateAway ==
    /\ surface = "dashboard"
    /\ surface' = "gone"
    /\ text' = <<>> /\ presentationUrl' = ""
    /\ roadmapLoading' = FALSE /\ roadmapReady' = FALSE /\ showRoadmapDialog' = FALSE
    /\ videoLoading' = FALSE /\ videoReady' = FALSE /\ showVideoDialog' = FALSE
    /\ chatMessages' = InitialChatMessages
    /\ chatInput' = <<>>
    /\ generated' = [f \in DOMAIN generated |-> NoRequest]
    /\ lastEvent' = UserEvent("NavigateAway")
    /\ staleAccess' = {}
    /\ openedBy' = [f \in {"roadmap", "video"} |-> "none"]
    /\ history' = Append(history, "elsewhere")
    /\ UNCHANGED <<landingVars, requests, nextId, objectUrls>>

(* ----------------------------- specification --------------------------- *)
Next ==
    \/ \E s \in Prompts : LandingSetText(s)
    \/ LandingHandleCreateSlides
    \/ \E r \in requests, resp \in Responses : LandingResolveCreateSlides(r, resp)
    \/ VisitDashboard
    \/ VisitDownload
    \/ DownloadRedirect
    \/ \E f \in Features : ClickGenerate(f)
    \/ \E f \in Features : ClickRedo(f)
    \/ \E f \in Features : ClickAccess(f)
    \/ \E r \in requests, resp \in Responses : ResolveCreateSlides(r, resp)
    \/ \E r \in requests, resp \in Responses : ResolveCreateNetwork(r, resp)
    \/ \E r \in requests, resp \in Responses : ResolveCreateRoadmap(r, resp)
    \/ \E r \in requests, resp \in Responses : ResolveCreateVideo(r, resp)
    \/ handleViewRoadmap
    \/ handleDownloadRoadmap
    \/ \E r \in requests, resp \in Responses : ResolveViewRoadmap(r, resp)
    \/ \E r \in requests, resp \in Responses : ResolveDownloadRoadmap(r, resp)
    \/ HideRoadmapDialog
    \/ handleViewVideo
    \/ handleDownloadVideo
    \/ \E r \in requests, resp \in Responses : ResolveViewVideo(r, resp)
    \/ \E r \in requests, resp \in Responses : ResolveDownloadVideo(r, resp)
    \/ HideVideoDialog
    \/ \E s \in ChatInputs : setChatInput(s)
    \/ handleChatSubmit
    \/ \E r \in requests, resp \in Responses : ResolveChatSubmit(r, resp)
    \/ NavigateAway

Spec == Init /\ [][Next]_vars

TypeOK ==
    /\ surface \in {"landing", "download", "dashboard", "gone"}
    /\ landingText \in Prompts /\ text \in Prompts /\ chatInput \in ChatInputs
    /\ landingLoading \in BOOLEAN
    /\ roadmapLoading \in BOOLEAN /\ roadmapReady \in BOOLEAN /\ showRoadmapDialog \in BOOLEAN
    /\ videoLoading \in BOOLEAN /\ videoReady \in BOOLEAN /\ showVideoDialog \in BOOLEAN
    /\ nextId \in 0..MaxRequests
    /\ objectUrls \in 0..MaxRequests
    /\ staleAccess \subseteq requests
    /\ openedBy \in [{"roadmap", "video"} -> {"none", "generation", "access"}]
    /\ Len(history) \in 1..3
    /\ Cardinality(requests) <= nextId + 1

(* ------------------------ vocabulary of the claims --------------------- *)
BinaryFeatures == {"roadmap", "video"}

\* the handler a feature's Generate and Redo triggers are meant to run
CreateHandler(f) ==
    CASE f = "slides"  -> "handleCreateSlides"
      [] f = "network" -> "handleCreateNetwork"
      [] f = "roadmap" -> "handleCreateRoadmap"
      [] f = "video"   -> "handleCreateVideo"

ViewHandlers == {"handleViewRoadmap", "handleViewVideo"}
DownloadHandlers == {"handleDownloadRoadmap", "handleDownloadVideo"}
AccessHandlers == ViewHandlers \cup DownloadHandlers

\* the generation requests of a feature that have not resolved
GenerationRequests(f) == {r \in requests : r.handler = CreateHandler(f)}

\* a handler step that ended in its catch block or refused the prompt
Failed(e) == e.alert # "" \/ e.console = "error"

Users(msgs) == Cardinality({i \in DOMAIN msgs : msgs[i].role = "user"})
Assistants(msgs) == Cardinality({i \in DOMAIN msgs : msgs[i].role = "assistant"})
ChatRequests == {r \in requests : r.handler = "handleChatSubmit"}

(* -------------------------------- claims ------------------------------- *)
\* C1: for every feature, a generate invoked while the trimmed prompt is empty
\* issues no request, surfaces a validation message and leaves the phase idle.
C1_EmptyPromptIsRefused ==
    [][\A f \in Features :
          (Mounted /\ Trim(text) = <<>>
             /\ lastEvent'.name = CreateHandler(f) /\ lastEvent'.part = "call")
          => (requests' = requests /\ lastEvent'.alert # "" /\ Phase(f)' = "idle")]_vars

\* C2: for every feature at most one generation request is outstanding at any
\* time (stated for a session whose prompt passes validation).
C2_OneGenerationOutstanding ==
    \A f \in Features :
        (Mounted /\ Trim(text) # <<>>) => Cardinality(GenerationRequests(f)) <= 1

\* C3: for every feature, a generate from idle with a non-empty prompt moves the
\* feature to generating, and the success of its request moves it from
\* generating to ready.
C3_SuccessGoesIdleGeneratingReady ==
    [][\A f \in Features :
          /\ (Mounted /\ Trim(text) # <<>>
                /\ lastEvent'.name = CreateHandler(f) /\ lastEvent'.part = "call"
                /\ lastEvent'.trigger = "generate" /\ requests' # requests)
             => (Phase(f) = "idle" /\ Phase(f)' = "generating")
          /\ (Mounted /\ Trim(text) # <<>>
                /\ lastEvent'.name = CreateHandler(f) /\ lastEvent'.part = "resolve"
                /\ lastEvent'.trigger = "generate" /\ ~Failed(lastEvent'))
             => (Phase(f) = "generating" /\ Phase(f)' = "ready")]_vars

\* C4: for every feature, after a generation request fails the phase is idle and
\* the failure reason has been surfaced (stated for a session whose prompt
\* passes validation).
C4_FailureGoesToIdleWithMessage ==
    [][\A f \in Features :
          (Mounted /\ Trim(text) # <<>> /\ lastEvent'.name = CreateHandler(f) /\ lastEvent'.part = "resolve"
             /\ Failed(lastEvent'))
          => (Phase(f)' = "idle" /\ lastEvent'.alert # "")]_vars

\* C5 as claimed: after a generate or redo that ends in a ValidationError or a
\* RequestFailure the phase is the one before the invocation: idle for generate,
\* ready for redo.
C5_FailureRestoresPriorPhase ==
    [][\A f \in Features :
          (Mounted /\ lastEvent'.name = CreateHandler(f) /\ Failed(lastEvent'))
          => Phase(f)' = (IF lastEvent'.trigger = "redo" THEN "ready" ELSE "idle")]_vars

\* C5 as amended: a failed generate leaves the phase it started from (idle); a
\* failed redo leaves a binary-kind feature idle, and only the slides card,
\* which never changes phase, still ready.
C5_FailureLeavesBinaryIdle ==
    [][\A f \in Features :
          (Mounted /\ lastEvent'.name = CreateHandler(f) /\ Failed(lastEvent'))
          => Phase(f)' = (IF lastEvent'.trigger = "redo" /\ f \notin BinaryFeatures
                          THEN "ready" ELSE "idle")]_vars

\* a redo of the roadmap has failed and the card is back to Generate
C5_Witness ==
    /\ Mounted
    /\ lastEvent.name = "handleCreateRoadmap" /\ lastEvent.part = "resolve"
    /\ lastEvent.trigger = "redo" /\ lastEvent.alert # ""
    /\ Phase("roadmap") = "idle"

\* C6: the Redo trigger of a feature is offered only while the feature is ready
\* and no generation request of it is outstanding.
C6_RedoOnlyWhenReadyAndQuiet ==
    \A f \in Features :
        (Mounted /\ ~ShowsGenerate(f)) => (Phase(f) = "ready" /\ GenerationRequests(f) = {})

\* C7: a redo issues the same request (endpoint and body) as the generate of
\* that feature did and moves the feature to generating.
C7_RedoRepeatsGenerate ==
    [][\A f \in Features :
          (Mounted /\ lastEvent'.name = CreateHandler(f) /\ lastEvent'.part = "call"
             /\ lastEvent'.trigger = "redo" /\ requests' # requests)
          => /\ \A r \in requests' \ requests :
                    r.endpoint = generated[f].endpoint /\ r.body = generated[f].body
             /\ Phase(f)' = "generating"]_vars

C9_AccessIsOneFreshRequest ==
    [][/\ \A h \in AccessHandlers :
            (lastEvent'.name = h /\ lastEvent'.part = "call")
            => /\ requests \subseteq requests'
               /\ Cardinality(requests' \ requests) = 1
               /\ \A r \in requests' \ requests :
                     /\ r.handler = h
                     /\ r.endpoint = generated[FeatureOf(h)].endpoint
                     /\ r.body.prompt = generated[FeatureOf(h)].body.prompt
                     /\ r.body = [generated[FeatureOf(h)].body EXCEPT
                                     !.download = IF h \in DownloadHandlers THEN "true"
                                                  ELSE "false"]
       /\ (lastEvent'.opened \in {"blob:roadmap", "blob:video"} \/ lastEvent'.saved # "")
            => /\ lastEvent'.name \in AccessHandlers
               /\ \E r \in requests : r.handler = lastEvent'.name /\ requests' = requests \ {r}
      ]_vars

\* a View and a Download of the roadmap are in flight together
C9_Witness ==
    /\ Mounted
    /\ \E v, d \in requests :
          /\ v.handler = "handleViewRoadmap" /\ d.handler = "handleDownloadRoadmap"
          /\ v.body.download = "false" /\ d.body.download = "true"
          /\ v.body.prompt = d.body.prompt

\* C10: an accepted submit appends the user message at once, the resolution of
\* a turn appends exactly one assistant message, nothing else changes the
\* transcript, and so the replies (not counting the greeting) are as many as the
\* user messages whose turn has resolved.
C10_OneReplyPerTurn ==
    /\ [](Mounted => Users(chatMessages) =
                       (Assistants(chatMessages) - 1) + Cardinality(ChatRequests))
    /\ [][/\ (lastEvent'.name = "handleChatSubmit" /\ lastEvent'.part = "call"
                /\ Trim(chatInput) # <<>>)
             => /\ chatMessages' = Append(chatMessages, [role |-> "user", text |-> chatInput])
                /\ Cardinality(ChatRequests') = Cardinality(ChatRequests) + 1
          /\ (lastEvent'.name = "handleChatSubmit" /\ lastEvent'.part = "resolve" /\ Mounted)
             => /\ Len(chatMessages') = Len(chatMessages) + 1
                /\ SubSeq(chatMessages', 1, Len(chatMessages)) = chatMessages
                /\ chatMessages'[Len(chatMessages')].role = "assistant"
                /\ chatMessages'[Len(chatMessages')].text \in
                      ({ChatFallback, ChatNoReply} \cup ServerReplies) \ {<<>>}
          /\ (Mounted' /\ ~(lastEvent'.name = "handleChatSubmit" /\ Trim(chatInput) # <<>>)
                       /\ ~(lastEvent'.name = "handleChatSubmit" /\ lastEvent'.part = "resolve"))
             => chatMessages' = chatMessages
         ]_vars

\* two overlapping turns have both resolved: two user messages, two replies
C10_Witness ==
    /\ Mounted
    /\ Len(chatMessages) = 5
    /\ chatMessages[2].role = "user" /\ chatMessages[3].role = "user"
    /\ chatMessages[4].role = "assistant" /\ chatMessages[5].role = "assistant"
    /\ ChatRequests = {}

\* a sequence is an initial segment of another
IsPrefix(s, t) == Len(s) <= Len(t) /\ SubSeq(t, 1, Len(s)) = s

\* C11: the transcript is append-only: while the dashboard stays mounted, every
\* step (submit, resolution or anything else) leaves the earlier transcript an
\* initial segment of the later one.
C11_TranscriptAppendOnly ==
    [][(Mounted /\ Mounted') => IsPrefix(chatMessages, chatMessages')]_vars

\* two turns were submitted before either resolved, one has resolved since and
\* the other is still in flight
C11_Witness ==
    /\ Mounted /\ Len(chatMessages) = 4
    /\ chatMessages[2].role = "user" /\ chatMessages[3].role = "user"
    /\ chatMessages[4].role = "assistant"
    /\ Cardinality(ChatRequests) = 1

\* C12: the request of a chat turn carries the prompt and, as chatHistory, the
\* transcript as it stood immediately before that turn's own user message was
\* appended, whatever earlier turns are still in flight.
C12_HistoryIsTranscriptBeforeOwnMessage ==
    /\ [](Mounted =>
            \A r \in ChatRequests :
                /\ IsPrefix(r.body.chatHistory, chatMessages)
                /\ Len(r.body.chatHistory) < Len(chatMessages)
                /\ chatMessages[Len(r.body.chatHistory) + 1] =
                       [role |-> "user", text |-> r.body.message]
                /\ r.body.key = "businessIdea" /\ r.body.prompt = Trim(text))
    /\ [][(lastEvent'.name = "handleChatSubmit" /\ lastEvent'.part = "call"
             /\ Trim(chatInput) # <<>>)
          => \E r \in requests' \ requests :
                /\ requests' = requests \cup {r}
                /\ r.endpoint = "/api/chat"
                /\ r.body.chatHistory = chatMessages
                /\ r.body.message = chatInput
                /\ r.body.prompt = Trim(text)
                /\ chatMessages' = Append(r.body.chatHistory,
                                          [role |-> "user", text |-> r.body.message])
         ]_vars

\* two turns are in flight, the later one submitted while the earlier one was
\* unresolved: their histories differ by the earlier turn's user message
C12_Witness ==
    /\ Mounted
    /\ \E r1, r2 \in ChatRequests :
          /\ Len(r1.body.chatHistory) = 1 /\ Len(r2.body.chatHistory) = 2
          /\ r2.body.chatHistory = Append(r1.body.chatHistory,
                                          [role |-> "user", text |-> r1.body.message])
          /\ r1.body.prompt # <<>>

C14_FirstSubmitGivesUserMessageOnly ==
    [][(lastEvent'.name = "handleChatSubmit" /\ lastEvent'.part = "call"
          /\ Trim(chatInput) # <<>> /\ Users(chatMessages) = 0)
       => chatMessages' = <<[role |-> "user", text |-> chatInput]>>]_vars

\* C14: the transcript of a session starts as the assistant's greeting; the
\* first accepted submit makes it exactly greeting, user message and sends one
\* chat request, and when that request fails the transcript becomes exactly
\* greeting, user message, fallback.
C14_FirstTurnFollowsGreeting ==
    [][/\ (lastEvent'.name = "handleChatSubmit" /\ lastEvent'.part = "call"
             /\ Trim(chatInput) # <<>> /\ Users(chatMessages) = 0)
          => /\ chatMessages' = <<[role |-> "assistant", text |-> Greeting],
                                  [role |-> "user", text |-> chatInput]>>
             /\ \E r \in requests' \ requests :
                   /\ requests' = requests \cup {r}
                   /\ r.endpoint = "/api/chat" /\ r.body.message = chatInput
       /\ \A r \in ChatRequests, resp \in Responses :
            (Mounted /\ lastEvent'.part = "resolve"
               /\ Users(chatMessages) = 1 /\ Len(chatMessages) = 2
               /\ (resp.net \/ ~resp.ok) /\ ResolveChatSubmit(r, resp))
            => chatMessages' = <<[role |-> "assistant", text |-> Greeting],
                                 [role |-> "user", text |-> r.body.message],
                                 [role |-> "assistant", text |-> ChatFallback]>>
      ]_vars

\* the first turn of a session has just failed
C14_Witness ==
    /\ Mounted /\ Len(chatMessages) = 3
    /\ chatMessages[1] = [role |-> "assistant", text |-> Greeting]
    /\ chatMessages[2].role = "user"
    /\ chatMessages[3] = [role |-> "assistant", text |-> ChatFallback]
    /\ lastEvent.name = "handleChatSubmit" /\ lastEvent.part = "resolve"
    /\ lastEvent.console = "error"

\* the slides requests of the entry surface that have not resolved
LandingRequests == {r \in requests : r.handler = "Landing.handleCreateSlides"}

\* C15: after every slides generation that succeeds with a link u, started on
\* the entry surface or by Generate/Redo on the dashboard, the slides feature is
\* ready and its access action opens u.
C15_AccessOpensLatestSlides ==
    [][\A r \in GenerationRequests("slides") \cup LandingRequests, resp \in Responses :
          (/\ ~resp.net /\ resp.ok /\ resp.json /\ resp.presentationUrl # ""
           /\ \/ LandingResolveCreateSlides(r, resp)
              \/ (Mounted /\ ResolveCreateSlides(r, resp)))
          => /\ Phase("slides")' = "ready"
             /\ Content("slides")' = resp.presentationUrl
      ]_vars

\* C16: every blob URL a View or Download handler creates is revoked before
\* that handler finishes, so between handler steps no created URL is left
\* unreleased.
C16_EveryObjectUrlIsRevoked == objectUrls = 0

\* the step is the resolution, with response resp, of a View (view = TRUE) or a
\* Download (view = FALSE) of feature f
AccessResolves(f, view, r, resp) ==
    CASE f = "roadmap" /\ view  -> ResolveViewRoadmap(r, resp)
      [] f = "roadmap" /\ ~view -> ResolveDownloadRoadmap(r, resp)
      [] f = "video" /\ view    -> ResolveViewVideo(r, resp)
      [] f = "video" /\ ~view   -> ResolveDownloadVideo(r, resp)

\* the View and Download requests of a feature that have not resolved
AccessRequests(f) == {r \in requests : r.handler \in AccessHandlers /\ FeatureOf(r.handler) = f}

\* the visibility of the modal of a binary feature
ModalVisible(f) == IF f = "roadmap" THEN showRoadmapDialog ELSE showVideoDialog

\* the fixed file name a binary feature is saved under
FileName(f) == IF f = "roadmap" THEN RoadmapFile ELSE VideoFile

\* C17: a View or Download closes the feature's modal exactly when it
\* succeeds: a successful resolution opens the artifact (View) or saves it
\* under the fixed file name (Download) and leaves the modal hidden; a failed
\* resolution opens and saves nothing, surfaces a message and leaves the
\* modal's visibility as it was.
C17_AccessClosesModalOnSuccessOnly ==
    [][\A f \in BinaryFeatures, view \in BOOLEAN :
       \A r \in AccessRequests(f), resp \in Responses :
          (Mounted /\ lastEvent'.name \in AccessHandlers /\ AccessResolves(f, view, r, resp))
          => IF ~resp.net /\ resp.ok
             THEN /\ ~ModalVisible(f)'
                  /\ lastEvent'.alert = ""
                  /\ IF view
                     THEN lastEvent'.opened # "" /\ lastEvent'.saved = ""
                     ELSE lastEvent'.saved = FileName(f) /\ lastEvent'.opened = ""
             ELSE /\ ModalVisible(f)' = ModalVisible(f)
                  /\ lastEvent'.opened = "" /\ lastEvent'.saved = ""
                  /\ lastEvent'.alert # ""
      ]_vars

\* a Download of the video has just failed: its message is up and the modal
\* is still visible
C17_Witness ==
    /\ Mounted /\ showVideoDialog
    /\ lastEvent.name = "handleDownloadVideo" /\ lastEvent.part = "resolve"
    /\ lastEvent.alert # "" /\ lastEvent.saved = ""

\* the step is the resolution, with response resp, of the generation request r
\* of a binary feature
GenerationResolves(f, r, resp) ==
    IF f = "roadmap" THEN ResolveCreateRoadmap(r, resp) ELSE ResolveCreateVideo(r, resp)

\* C18: when a generation (generate or redo) of a binary feature succeeds, the
\* feature's modal becomes visible in the very step in which the feature
\* becomes ready, and no step makes the feature ready without the modal; a
\* failed generation leaves the modal hidden.
C18_ModalOpensWithReady ==
    [][\A f \in BinaryFeatures :
          /\ \A r \in GenerationRequests(f), resp \in Responses :
                (Mounted /\ lastEvent'.name = CreateHandler(f)
                    /\ GenerationResolves(f, r, resp))
                => IF ~resp.net /\ resp.ok
                   THEN /\ Phase(f) = "generating" /\ ~ModalVisible(f)
                        /\ Phase(f)' = "ready" /\ ModalVisible(f)'
                   ELSE ~ModalVisible(f)' /\ Phase(f)' # "ready"
          /\ (Mounted /\ Phase(f) # "ready" /\ Phase(f)' = "ready") => ModalVisible(f)'
      ]_vars

\* a redo of the video has just succeeded: the video is ready again and its
\* modal is up
C18_Witness ==
    /\ Mounted
    /\ lastEvent.name = "handleCreateVideo" /\ lastEvent.part = "resolve"
    /\ lastEvent.trigger = "redo" /\ lastEvent.alert = ""
    /\ Phase("video") = "ready" /\ showVideoDialog

\* C19: View and Download of one binary feature are mutually exclusive: while
\* one access request of the feature is outstanding no further one can be
\* started, so at most one access request per feature is in flight.
C19_OneAccessOutstanding ==
    \A f \in BinaryFeatures : Mounted => Cardinality(AccessRequests(f)) <= 1

\* C20: once the dashboard has been torn down, the resolution of a request
\* that was outstanding is a no-op: it changes no feature phase, no modal
\* visibility and no transcript, and it produces no alert, no opened window
\* and no file save.
C20_ResolutionAfterTeardownIsNoOp ==
    [][(surface = "gone" /\ lastEvent'.part = "resolve")
       => /\ UNCHANGED dashVars
          /\ lastEvent'.alert = "" /\ lastEvent'.opened = "" /\ lastEvent'.saved = ""
      ]_vars

\* what a feature's card and modal show: its phase and its modal's visibility
FeatureState(f) == <<Phase(f), IF f \in BinaryFeatures THEN ModalVisible(f) ELSE FALSE>>

\* the component a step belongs to: a feature, the chat, or "any" for a step
\* whose event does not name one
Owner(e) ==
    CASE e.name \in {"handleCreateSlides", "handleCreateNetwork", "handleCreateRoadmap",
                     "handleViewRoadmap", "handleDownloadRoadmap", "handleCreateVideo",
                     "handleViewVideo", "handleDownloadVideo"} -> FeatureOf(e.name)
      [] e.name \in {"handleChatSubmit", "setChatInput"} -> "chat"
      [] e.name = "HideRoadmapDialog" -> "roadmap"
      [] e.name = "HideVideoDialog" -> "video"
      [] OTHER -> "any"

\* the components a step changes
Changed ==
    {f \in Features : FeatureState(f)' # FeatureState(f)}
      \cup (IF chatMessages' # chatMessages THEN {"chat"} ELSE {})

\* C21: features share no state: every step of one feature (generate, redo,
\* resolution, modal open and close, view, download) leaves the phase and modal
\* of every other feature and the transcript unchanged, and every chat step
\* leaves all phases and modals unchanged.
C21_FeaturesShareNoState ==
    [][(Mounted /\ Mounted')
       => /\ Cardinality(Changed) <= 1
          /\ Owner(lastEvent') # "any" => Changed \subseteq {Owner(lastEvent')}
      ]_vars

\* the video has just been sent for generation while the roadmap is ready and
\* a chat turn is in flight
C21_Witness ==
    /\ Mounted
    /\ lastEvent.name = "handleCreateVideo" /\ lastEvent.part = "call"
    /\ Phase("video") = "generating" /\ Phase("roadmap") = "ready"
    /\ ChatRequests # {}

\* the step is the resolution, with response resp, of the generation request r
\* of feature f
CreateResolves(f, r, resp) ==
    CASE f = "slides"  -> ResolveCreateSlides(r, resp)
      [] f = "network" -> ResolveCreateNetwork(r, resp)
      [] f = "roadmap" -> ResolveCreateRoadmap(r, resp)
      [] f = "video"   -> ResolveCreateVideo(r, resp)

\* the phase in which the generation of f ends on response resp when f is the
\* only feature in use, given the phase it shows while the request is out
PhaseAlone(f, phase, resp) ==
    IF f \in BinaryFeatures
    THEN (IF ~resp.net /\ resp.ok THEN "ready" ELSE "idle")
    ELSE phase

\* C22: requests of different features can be outstanding together, and
\* whatever else is in flight or has resolved, the resolution of a feature's
\* generation ends that feature in the phase it reaches when run alone, which
\* depends on its own response only, and touches no other feature; so every
\* resolution order gives each feature the same final phase.
C22_ResolutionOrderIsIrrelevant ==
    [][\A f \in Features :
          (Mounted /\ lastEvent'.name = CreateHandler(f) /\ lastEvent'.part = "resolve")
          => /\ \A g \in Features \ {f} : FeatureState(g)' = FeatureState(g)
             /\ chatMessages' = chatMessages
             /\ IF f \in BinaryFeatures
                THEN \A r \in GenerationRequests(f) \ requests', resp \in Responses :
                        CreateResolves(f, r, resp)
                        => Phase(f)' = PhaseAlone(f, Phase(f), resp)
                ELSE Phase(f)' = Phase(f)
      ]_vars

\* roadmap and video are both generating while a chat turn is in flight
C22_Witness ==
    /\ Mounted
    /\ Phase("roadmap") = "generating" /\ Phase("video") = "generating"
    /\ GenerationRequests("roadmap") # {} /\ GenerationRequests("video") # {}
    /\ ChatRequests # {}

\* C23: every card renders the one affordance of its phase (enabled Generate
\* in idle, disabled Generate in generating, Redo + access in ready), and the
\* Generate trigger is rendered disabled exactly when a generation request of
\* the feature is outstanding (stated for a prompt that passes validation).
C23_GenerateDisabledIffOutstanding ==
    (Mounted /\ Trim(text) # <<>>)
    => \A f \in Features :
          /\ Phase(f) \in {"idle", "generating", "ready"}
          /\ (ShowsGenerate(f) /\ GenerateDisabled(f)) <=> (GenerationRequests(f) # {})

\* the step is the continuation of the dashboard handler that issued r, run on
\* response resp
Resolves(r, resp) ==
    CASE r.handler = "handleCreateSlides"    -> ResolveCreateSlides(r, resp)
      [] r.handler = "handleCreateNetwork"   -> ResolveCreateNetwork(r, resp)
      [] r.handler = "handleCreateRoadmap"   -> ResolveCreateRoadmap(r, resp)
      [] r.handler = "handleViewRoadmap"     -> ResolveViewRoadmap(r, resp)
      [] r.handler = "handleDownloadRoadmap" -> ResolveDownloadRoadmap(r, resp)
      [] r.handler = "handleCreateVideo"     -> ResolveCreateVideo(r, resp)
      [] r.handler = "handleViewVideo"       -> ResolveViewVideo(r, resp)
      [] r.handler = "handleDownloadVideo"   -> ResolveDownloadVideo(r, resp)
      [] r.handler = "handleChatSubmit"      -> ResolveChatSubmit(r, resp)
      [] OTHER -> FALSE

\* C24: for every request of the dashboard (generate, redo, view, download,
\* chat turn) a non-2xx response is a failure whatever its body (JSON with an
\* error field, JSON without one, unparsable): no feature becomes ready,
\* nothing is opened or saved, no blob URL is made and the only chat message
\* appended is the fallback; that is, a step with any of these effects is not
\* the continuation of a handler on a non-2xx response.
C24_Non2xxIsFailure ==
    [][(/\ lastEvent'.part = "resolve"
        /\ \/ lastEvent'.opened # "" \/ lastEvent'.saved # ""
           \/ objectUrls' # objectUrls
           \/ \E f \in Features : Phase(f)' = "ready" /\ Phase(f) # "ready"
           \/ /\ chatMessages' # chatMessages
              /\ chatMessages' # Append(chatMessages,
                                        [role |-> "assistant", text |-> ChatFallback]))
       => \A r \in requests \ requests', resp \in Responses :
             (~resp.net /\ ~resp.ok) => ~Resolves(r, resp)
      ]_vars

\* the roadmap's generation has just been refused by the server with an error
\* text in a JSON body, and the roadmap is idle
C24_Witness ==
    /\ Mounted
    /\ lastEvent.name = "handleCreateRoadmap" /\ lastEvent.part = "resolve"
    /\ lastEvent.alert \in ServerErrors \ {""}
    /\ Phase("roadmap") = "idle"

\* C25: a 2xx create_slides response without a presentationUrl is a failure:
\* no link is opened, the entry surface does not navigate, a message is
\* surfaced, the slides phase is what it was before the request and the
\* request no longer holds a trigger disabled.
C25_MissingLinkIsFailure ==
    [][lastEvent'.part = "resolve"
       => \A r \in requests \ requests', resp \in Responses :
            (~resp.net /\ resp.ok /\ resp.presentationUrl = "")
            => /\ ResolveCreateSlides(r, resp)
                  => /\ lastEvent'.opened = "" /\ lastEvent'.alert # ""
                     /\ Phase("slides")' = Phase("slides")
                     /\ ~GenerateDisabled("slides")'
                     /\ presentationUrl' = presentationUrl
               /\ LandingResolveCreateSlides(r, resp)
                  => /\ surface' = "landing" /\ landingError' # ""
                     /\ presentationUrl' = presentationUrl
                     /\ ~landingLoading'
                     /\ LandingSendDisabled' <=> (Trim(landingText') = <<>>)
      ]_vars

\* a redo of the slides on the dashboard has just come back 2xx without a link
C25_Witness ==
    /\ Mounted
    /\ lastEvent.name = "handleCreateSlides" /\ lastEvent.part = "resolve"
    /\ lastEvent.alert = MsgSlidesNoLink /\ lastEvent.opened = ""
    /\ Phase("slides") = "ready"

\* the slides request of the entry surface has not resolved
LandingOutstanding == LandingRequests # {}

\* C26: no failure disables its trigger for good: a feature shows generating,
\* and the entry surface shows loading, only while a request of it is
\* outstanding; a refused or failed generation leaves the feature's Generate
\* trigger enabled; a failed View or Download leaves the modal and the phase
\* as they were; a failed chat turn leaves the page as clickable as it was.
C26_FailureLeavesTriggerAvailable ==
    /\ [](/\ Mounted => \A f \in Features :
                           Phase(f) = "generating" => GenerationRequests(f) # {}
          /\ landingLoading => LandingOutstanding)
    /\ [][/\ \A f \in Features :
                (Mounted /\ lastEvent'.name = CreateHandler(f) /\ Failed(lastEvent'))
                => Phase(f)' # "generating" /\ ~GenerateDisabled(f)'
          /\ \A f \in BinaryFeatures :
                (Mounted /\ lastEvent'.name \in AccessHandlers
                   /\ FeatureOf(lastEvent'.name) = f /\ Failed(lastEvent'))
                => ModalVisible(f)' = ModalVisible(f) /\ Phase(f)' = Phase(f)
          /\ (Mounted /\ lastEvent'.name = "handleChatSubmit" /\ Failed(lastEvent'))
                => PageClickable' = PageClickable /\ chatInput' = chatInput
          /\ (lastEvent'.name = "Landing.handleCreateSlides" /\ landingError' # "")
                => /\ LandingSendDisabled' <=> (Trim(landingText') = <<>>)
                   /\ surface' = "landing"
         ]_vars

\* the entry surface's generation has just failed: the message is up, loading
\* is off and the send button is enabled for the prompt still in the box
C26_Witness ==
    /\ surface = "landing"
    /\ lastEvent.name = "Landing.handleCreateSlides" /\ lastEvent.part = "resolve"
    /\ landingError # "" /\ ~landingLoading /\ ~LandingSendDisabled

\* C27: whenever a feature is ready the trimmed prompt is non-empty, and so a
\* redo is never refused by the prompt validation.
C27_ReadyImpliesPrompt ==
    /\ [](Mounted => \A f \in Features : Phase(f) = "ready" => Trim(text) # <<>>)
    /\ [][(lastEvent'.trigger = "redo" /\ lastEvent'.part = "call")
          => lastEvent'.alert = "" /\ requests' # requests]_vars

\* a redo of the roadmap has been accepted while the slides are ready
C27_Witness ==
    /\ Mounted
    /\ lastEvent.trigger = "redo" /\ lastEvent.part = "call"
    /\ lastEvent.name = "handleCreateRoadmap"
    /\ Phase("slides") = "ready" /\ Trim(text) # <<>>

\* C28: on the entry surface a slides generation navigates to the dashboard
\* exactly when its request returns 2xx with a presentationUrl, handing over
\* that URL and the prompt of the submit; in every other outcome it stays on
\* the entry surface with an error message; in all outcomes loading ends
\* false. The hand-over happens once: at most one such request is outstanding,
\* the entry surface is never entered again and the dashboard never changes
\* what it was handed.
C28_LandingNavigatesOnLinkOnly ==
    /\ [](Cardinality(LandingRequests) <= 1)
    /\ [][/\ (lastEvent'.name = "Landing.handleCreateSlides" /\ lastEvent'.part = "resolve")
             => \A r \in requests \ requests', resp \in Responses :
                   LandingResolveCreateSlides(r, resp)
                   => /\ IF ~resp.net /\ resp.ok /\ resp.presentationUrl # ""
                         THEN /\ surface = "landing" /\ surface' = "dashboard"
                              /\ presentationUrl' = resp.presentationUrl
                              /\ text' = r.closureText
                              /\ Trim(text') = r.body.prompt
                         ELSE /\ surface' = "landing" /\ landingError' # ""
                              /\ UNCHANGED locationVars
                      /\ ~landingLoading'
          /\ surface \in {"dashboard", "gone"} => surface' # "landing"
          /\ (Mounted /\ Mounted') => UNCHANGED locationVars
         ]_vars

\* the entry surface has just navigated to the dashboard with the link "u2"
\* and its prompt
C28_Witness ==
    /\ Mounted
    /\ lastEvent.name = "Landing.handleCreateSlides" /\ lastEvent.part = "resolve"
    /\ presentationUrl = "u2" /\ Trim(text) # <<>>

\* C29: the prompt does not change during a session and every request issued
\* on the dashboard (slides, roadmap, video, network, view, download, chat)
\* carries the prompt exactly as the entry surface handed it over.
C29_EveryRequestCarriesThePrompt ==
    /\ [][(Mounted /\ Mounted') => text' = text]_vars
    /\ [](Mounted => \A r \in requests \ LandingRequests : r.body.prompt = text)

\* C30 as stated: when a turn resolves, the message right after that turn's
\* user message is the assistant's reply, also when a later submit was made
\* while the turn was in flight.
C30_ReplyFollowsOwnMessage ==
    [][(Mounted /\ lastEvent'.name = "handleChatSubmit" /\ lastEvent'.part = "resolve")
       => \A r \in ChatRequests \ requests' :
             /\ Len(chatMessages') >= Len(r.body.chatHistory) + 2
             /\ chatMessages'[Len(r.body.chatHistory) + 2].role = "assistant"
      ]_vars

\* C30: a reply is appended at the end of the transcript as it stands when its
\* request resolves, so replies appear in resolution order; it comes after the
\* user message of its turn, and right after it exactly when nothing else was
\* appended while the turn was in flight.
C30_ReplyAppendedAtResolution ==
    [][(Mounted /\ lastEvent'.name = "handleChatSubmit" /\ lastEvent'.part = "resolve")
       => \A r \in ChatRequests \ requests', resp \in Responses :
             ResolveChatSubmit(r, resp)
             => /\ chatMessages' = Append(chatMessages, ChatReply(resp))
                /\ chatMessages'[Len(chatMessages')].role = "assistant"
                /\ chatMessages[Len(r.body.chatHistory) + 1] =
                       [role |-> "user", text |-> r.body.message]
                /\ Len(chatMessages') >= Len(r.body.chatHistory) + 2
                /\ (Len(chatMessages') = Len(r.body.chatHistory) + 2)
                       <=> (chatMessages = Append(r.body.chatHistory,
                                                  [role |-> "user", text |-> r.body.message]))
      ]_vars

\* the server's reply to the first turn has just landed after the user message
\* of a second turn that is still in flight
C30_Witness ==
    /\ Mounted
    /\ lastEvent.name = "handleChatSubmit" /\ lastEvent.part = "resolve"
    /\ Len(chatMessages) = 4
    /\ chatMessages[2].role = "user" /\ chatMessages[3].role = "user"
    /\ chatMessages[4] = [role |-> "assistant", text |-> Lit("R")]
    /\ \E r \in ChatRequests : Len(r.body.chatHistory) = 2

\* the request a resolution step consumes was issued in an earlier opening
ConsumesStale == (requests \ requests') \cap staleAccess # {}

\* C31: a result modal made visible by a successful generation stays visible
\* until the user dismisses it or a View/Download started during that same
\* opening succeeds: while the page is mounted nothing else hides it, and in
\* particular no resolution of a View/Download started in an earlier opening.
C31_StaleAccessNeverClosesNewerModal ==
    [][\A f \in BinaryFeatures :
          (Mounted /\ Mounted' /\ openedBy[f] = "generation" /\ ~ModalVisible(f)')
             => \/ lastEvent'.name \in {"HideRoadmapDialog", "HideVideoDialog"}
                \/ /\ lastEvent'.part = "resolve"
                   /\ lastEvent'.name \in AccessHandlers
                   /\ FeatureOf(lastEvent'.name) = f
                   /\ ~Failed(lastEvent')
                   /\ ~ConsumesStale]_vars

\* C32: for each binary feature the loading flag and the ready flag are never
\* both true in a rendered state, and loading is true exactly while a
\* generation request of that feature is outstanding.
C32_LoadingExcludesReady ==
    Mounted =>
        \A f \in BinaryFeatures :
            /\ ~(isLoading(f) /\ isReady(f))
            /\ isLoading(f) <=> (GenerationRequests(f) # {})

\* a regeneration of a ready video is in flight, another feature being ready
C32_Witness ==
    /\ Mounted /\ videoLoading /\ ~videoReady /\ roadmapReady
    /\ \E r \in GenerationRequests("video") : r.trigger = "redo"

\* the steps that only open or dismiss a result modal
ModalSteps == {"access", "HideRoadmapDialog", "HideVideoDialog"}

\* C33: whenever the modal of a binary feature is visible that feature is
\* ready, and a step that opens the modal from the card or dismisses it
\* changes no phase and issues no request.
C33_ModalImpliesReady ==
    /\ [](Mounted => \A f \in BinaryFeatures : ModalVisible(f) => Phase(f) = "ready")
    /\ [][\A f \in BinaryFeatures :
             (ModalVisible(f)' # ModalVisible(f) /\ lastEvent'.name \in ModalSteps)
                => /\ \A g \in Features : Phase(g)' = Phase(g)
                   /\ requests' = requests /\ nextId' = nextId]_vars

\* a modal dismissed and opened again from the card's access button
C33_Witness ==
    /\ Mounted /\ showRoadmapDialog /\ roadmapReady
    /\ openedBy["roadmap"] = "access"

\* some outstanding request resolves
ResolveSome ==
    \E r \in requests, resp \in Responses :
        Resolves(r, resp) \/ LandingResolveCreateSlides(r, resp)

\* the program when every issued request is eventually answered and every
\* pending effect eventually runs; the request budget makes fairness of the
\* resolutions as a whole the same as fairness for each request. Its runs
\* issue LiveRequests requests from the dashboard at most.
LiveInit == Start(MaxRequests - LiveRequests)

LiveSpec == LiveInit /\ [][Next]_vars /\ WF_vars(ResolveSome) /\ WF_vars(DownloadRedirect)

\* C34: when every issued request eventually resolves, every feature that
\* enters generating eventually leaves it for ready or idle, and every chat
\* turn submitted on the mounted surface eventually has its assistant message
\* appended; no reachable state shows a feature generating with no generation
\* request of it outstanding.
C34_GeneratingEnds ==
    /\ [](\A f \in Features : Phase(f) = "generating" => GenerationRequests(f) # {})
    /\ \A f \in Features : (Phase(f) = "generating") ~> (Phase(f) \in {"idle", "ready"})
    /\ \A n \in 1..LiveRequests :
          (Mounted /\ Users(chatMessages) = n)
             ~> (~Mounted \/ Assistants(chatMessages) >= n + 1)

\* a generation and a chat turn are in flight together
C34_Witness ==
    /\ Mounted /\ Phase("roadmap") = "generating"
    /\ ChatRequests # {}
    /\ Users(chatMessages) > Assistants(chatMessages) - 1

\* C35: the network feature has no phase: its trigger, with any prompt, an
\* empty one included, issues one find-investors request, and neither the call
\* nor any resolution disables the trigger, changes a rendered affordance,
\* surfaces a message or makes the feature ready; the card always offers its
\* enabled Generate button, so several network requests can be outstanding.
C35_NetworkHasNoPhase ==
    /\ [](Mounted => ShowsGenerate("network") /\ ~GenerateDisabled("network"))
    /\ [][lastEvent'.name = "handleCreateNetwork" =>
            /\ lastEvent'.part = "call" =>
                  \E r \in requests' \ requests :
                      /\ requests' = requests \cup {r}
                      /\ r.endpoint = "/api/find-investors"
            /\ lastEvent'.alert = ""
            /\ \A g \in Features :
                  /\ Phase(g)' = Phase(g)
                  /\ ShowsGenerate(g)' = ShowsGenerate(g)
                  /\ GenerateDisabled(g)' = GenerateDisabled(g)
            /\ ModalOpen' = ModalOpen
            /\ chatMessages' = chatMessages
            /\ Phase("network")' # "ready"]_vars

\* two network requests outstanding together, issued with an empty prompt,
\* right after a third one has failed
C35_Witness ==
    /\ Mounted /\ Trim(text) = <<>>
    /\ Cardinality(GenerationRequests("network")) >= 2
    /\ lastEvent.name = "handleCreateNetwork" /\ lastEvent.part = "resolve"
    /\ lastEvent.console = "error"

\* C36: the affordance of the slides card is fixed for the session by the
\* presentationUrl handed over at entry: no step on the mounted surface, a
\* slides generate or redo and its resolution included, changes whether the
\* card shows Generate or Redo + access, and the Redo trigger is enabled also
\* while a slides request is outstanding.
C36_SlidesAffordanceFixed ==
    /\ [][(Mounted /\ Mounted') =>
             /\ presentationUrl' = presentationUrl
             /\ ShowsGenerate("slides")' = ShowsGenerate("slides")
             /\ Phase("slides")' = Phase("slides")]_vars
    /\ [](Mounted => (ShowsGenerate("slides") <=> presentationUrl = ""))
    /\ [](Mounted /\ ~ShowsGenerate("slides") /\ GenerationRequests("slides") # {}
            => ~RedoDisabled("slides"))

\* two redos of the slides are outstanding together and a third has succeeded
C36_Witness ==
    /\ Mounted /\ ~ShowsGenerate("slides")
    /\ Cardinality({r \in GenerationRequests("slides") : r.trigger = "redo"}) >= 2
    /\ lastEvent.name = "handleCreateSlides" /\ lastEvent.part = "resolve"
    /\ lastEvent.opened # ""

\* C37: a chat submit whose input is empty or blank is a no-op (no message
\* appended, no request issued, input unchanged); every accepted submit clears
\* the input, appends the input as typed as the user message and sends it as
\* typed as the message of one /api/chat request.
C37_BlankSubmitIsNoOp ==
    [][(lastEvent'.name = "handleChatSubmit" /\ lastEvent'.part = "call") =>
          IF Trim(chatInput) = <<>>
          THEN /\ chatMessages' = chatMessages
               /\ requests' = requests
               /\ chatInput' = chatInput
          ELSE /\ chatInput' = <<>>
               /\ chatMessages' = Append(chatMessages, [role |-> "user", text |-> chatInput])
               /\ \E r \in requests' \ requests :
                     /\ requests' = requests \cup {r}
                     /\ r.endpoint = "/api/chat"
                     /\ r.body.message = chatInput]_vars

\* a message typed with a trailing blank has just been submitted
C37_Witness ==
    /\ Mounted /\ chatInput = <<>>
    /\ lastEvent.name = "handleChatSubmit" /\ lastEvent.part = "call"
    /\ \E r \in ChatRequests : r.body.message = <<"a", " ">>
    /\ chatMessages[Len(chatMessages)] = [role |-> "user", text |-> <<"a", " ">>]

\* C38: a chat session starts with a transcript of exactly one assistant
\* greeting; the greeting stays the first message for good, so the transcript
\* is never empty, and it is part of the chatHistory of every request, that of
\* the first turn, which holds nothing else, included.
C38_GreetingStays ==
    /\ [](/\ chatMessages # <<>>
          /\ chatMessages[1] = [role |-> "assistant", text |-> Greeting])
    /\ [](\A r \in ChatRequests :
             /\ r.body.chatHistory # <<>>
             /\ r.body.chatHistory[1] = [role |-> "assistant", text |-> Greeting]
             /\ Users(r.body.chatHistory) = 0
                  => r.body.chatHistory = <<[role |-> "assistant", text |-> Greeting]>>)
    /\ [][(~Mounted /\ Mounted') =>
             chatMessages' = <<[role |-> "assistant", text |-> Greeting]>>]_vars

\* the first turn is in flight while a second turn has been answered
C38_Witness ==
    /\ Mounted
    /\ \E r \in ChatRequests : Users(r.body.chatHistory) = 0
    /\ Users(chatMessages) = 2 /\ Assistants(chatMessages) = 2

\* C39: a chat turn whose request returns 2xx with a missing or empty response
\* field appends exactly one assistant message, with the text 'Sorry, I
\* couldn't process that request.', which differs from the failure fallback
\* text; no assistant message is ever empty and the step raises no alert.
C39_MissingReplyHasDefaultText ==
    /\ [](\A i \in DOMAIN chatMessages : chatMessages[i].text # <<>>)
    /\ [][(lastEvent'.name = "handleChatSubmit" /\ lastEvent'.part = "resolve" /\ Mounted) =>
             \A r \in requests \ requests' :
                \A resp \in Responses :
                   (/\ ~resp.net /\ resp.ok /\ resp.json /\ resp.response = <<>>
                    /\ ResolveChatSubmit(r, resp))
                      => /\ chatMessages' = Append(chatMessages,
                                [role |-> "assistant",
                                 text |-> Lit("Sorry, I couldn't process that request.")])
                         /\ chatMessages'[Len(chatMessages')].text # ChatFallback
                         /\ lastEvent'.alert = ""]_vars

\* the default text has just been appended for a 2xx answer without a reply
C39_Witness ==
    /\ Mounted
    /\ lastEvent.name = "handleChatSubmit" /\ lastEvent.part = "resolve"
    /\ lastEvent.console = ""
    /\ chatMessages[Len(chatMessages)] = [role |-> "assistant", text |-> ChatNoReply]

\* C40: the Download page mounted without a presentationUrl, which is how App
\* routes it, offers no download or view action and redirects to '/',
\* replacing its history entry; a visit of /download always ends on the entry
\* surface.
C40_DownloadRedirectsHome ==
    /\ [](surface = "download" => DownloadPresentationUrl = "" /\ ~DownloadOffersActions)
    /\ [][surface = "download" =>
             /\ surface' = "landing"
             /\ Len(history') = Len(history)
             /\ history'[Len(history')] = "/"
             /\ lastEvent'.opened = "" /\ lastEvent'.saved = ""
             /\ requests' = requests]_vars
    /\ (surface = "download") ~> (surface = "landing")

\* the entry surface reached by the redirect, with /download gone from the history
C40_Witness ==
    /\ surface = "landing"
    /\ lastEvent.name = "Download.useEffect"
    /\ history = <<"/">>

====
